---------------------------- MODULE Spec2Model ----------------------------
(***************************************************************************)
(* Ultimate Chord Reader: bar-quantized chart assembly (format_chart in    *)
(* ultimate_chord_reader.py) and tempo resolution (get_bpm_from_drums in   *)
(* bpm_drums.py).                                                          *)
(*                                                                         *)
(* Time.  Every timestamp is an integer number of ticks of 5 ms (200 ticks *)
(* per second): 0.10 s = 20 ticks, 0.11 s = 22 ticks, 0.25 s = 50 ticks.   *)
(* All input timestamps are even, so the mean of the two middle beat       *)
(* intervals (statistics.median of an even count) is a whole tick and the  *)
(* arithmetic of the code is modelled exactly.                             *)
(*                                                                         *)
(* Text.  A Python str is a sequence of tokens; a chord name or a lyric    *)
(* word is one token, " " and "\t" are the whitespace tokens.  join, strip *)
(* and rstrip work on these sequences as the str methods do.               *)
(***************************************************************************)
EXTENDS Integers, Sequences, FiniteSets, TLC

VARIABLES
    \* ---- format_chart: arguments
    time_sig, bpm, lyrics, chords, beat_times,
    \* ---- format_chart: locals
    pc, exc, last_time, bar_starts, bar_len_est, total_bars,
    lyrics_by_bar, lyric_i, bar, chord_idx, chart_lines, result,
    \* ---- get_bpm_from_drums: what _librosa_beats returns, the locals
    \* est_tempo, beat_times and bpm, the bpm before folding, the position
    \* and the outcome of the call
    detected, est_tempo, drum_beat_times, drum_bpm, raw_bpm, tpc, outcome,
    \* ---- main: the audio files in input_songs/, the command line and the
    \* answers typed, the locals files and selection, the position, the index
    \* of the loop over selection, and what was printed
    input_dir, cli, files, selection, mpc, file_i, printed,
    \* ---- process_file and separate_and_score: the argument path, the stem
    \* files on disk, the
    \* locals (vocal_uvr, inst_uvr), (vocal_demucs, inst_demucs), score and
    \* (vocal, inst), the position and the exception raised
    path, disk, uvr_stems, demucs_stems, score, stems, ppc, pexc,
    \* ---- overwrite_and_remove: whether the file at path exists, its bytes,
    \* the local size, the position and the exception raised
    path_exists, contents, size, opc, rexc

chartVars == <<time_sig, bpm, lyrics, chords, beat_times, pc, exc, last_time,
               bar_starts, bar_len_est, total_bars, lyrics_by_bar, lyric_i,
               bar, chord_idx, chart_lines, result>>

tempoVars == <<detected, est_tempo, drum_beat_times, drum_bpm, raw_bpm, tpc, outcome>>

mainVars == <<input_dir, cli, files, selection, mpc, file_i, printed>>

procVars == <<path, disk, uvr_stems, demucs_stems, score, stems, ppc, pexc>>

rmVars == <<path_exists, contents, size, opc, rexc>>

sysVars == <<mainVars, procVars, rmVars>>

vars == <<chartVars, tempoVars, sysVars>>

-----------------------------------------------------------------------------
(* Bounds of the model *)

\* longest beat grid
MaxBeats == 5
\* longest chord list
MaxChords == 5
\* longest lyric list
MaxLyrics == 2
\* longest list of detected drum beats
MaxDrumBeats == 6
\* largest numerator of a raw BPM given to the octave folding
MaxRawBpm == 700
\* longest file given to overwrite_and_remove, in bytes
MaxFileSize == 4

-----------------------------------------------------------------------------
(* Program constants *)

\* MAX_CHANGES_PER_BAR = 2
MAX_CHANGES_PER_BAR == 2

\* grace = 0.25 (seconds), in ticks
grace == 50

-----------------------------------------------------------------------------
(* Python list and str helpers *)

SP == " "
TAB == "\t"
Whitespace == {SP, TAB}

\* seq[-1]
Last(s) == s[Len(s)]

Range(s) == {s[i] : i \in DOMAIN s}

\* max(a, b)
Max2(a, b) == IF a >= b THEN a ELSE b

\* max(iterable) of a non-empty collection
MaxOf(S) == CHOOSE x \in S : \A y \in S : y <= x

\* sep.join(parts): parts is a list of str
RECURSIVE Join(_, _)
Join(sep, parts) ==
    IF parts = <<>> THEN <<>>
    ELSE IF Len(parts) = 1 THEN parts[1]
    ELSE parts[1] \o sep \o Join(sep, Tail(parts))

\* str.rstrip(): drop trailing whitespace
RECURSIVE RStrip(_)
RStrip(s) ==
    IF s # <<>> /\ Last(s) \in Whitespace
    THEN RStrip(SubSeq(s, 1, Len(s) - 1))
    ELSE s

\* str.lstrip(): drop leading whitespace
RECURSIVE LStrip(_)
LStrip(s) ==
    IF s # <<>> /\ Head(s) \in Whitespace THEN LStrip(Tail(s)) ELSE s

\* str.strip()
Strip(s) == LStrip(RStrip(s))

\* statistics.median(data): middle value, or the mean of the two middle ones
Median(data) ==
    LET srt == SortSeq(data, LAMBDA a, b : a < b)
        n   == Len(data)
    IN  IF n % 2 = 1 THEN srt[(n + 1) \div 2]
        ELSE (srt[n \div 2] + srt[n \div 2 + 1]) \div 2

-----------------------------------------------------------------------------
(* format_chart: the pieces of the function *)

\* int(time_sig.split("/")[0]) for the numerators the model uses
IntOf(tok) == CASE tok = "1" -> 1 [] tok = "2" -> 2 [] tok = "3" -> 3
                [] tok = "4" -> 4 [] tok = "6" -> 6

\* beats_per_bar = int(time_sig.split("/")[0]) if "/" in time_sig else 4
BeatsPerBar(ts) == IF "/" \in Range(ts) THEN IntOf(ts[1]) ELSE 4

\* faulty variant of BarLen: the length of one beat (beats_per_bar forgotten)
BarLenOneBeat(b, bpb) == 12000 \div b

\* bar_len = (60.0 / bpm) * beats_per_bar, in ticks
BarLen(b, bpb) == (12000 * bpb) \div b

\* the header list: disclaimer, blank, five labelled lines, blank
Header == << <<"DISCLAIMER">>, <<>>, <<"Title:">>, <<"BPM:">>, <<"Key:">>,
             <<"Time Signature:">>, <<"Lyric Transcription Confidence:">>, <<>> >>

\* last_time: latest lyric end, last chord onset, last beat
LastTime(ly, ch, bt) ==
    LET t0 == 0
        t1 == IF ly # <<>> THEN Max2(t0, MaxOf({ly[i].e : i \in DOMAIN ly})) ELSE t0
        t2 == IF ch # <<>> THEN Max2(t1, Last(ch).onset) ELSE t1
        t3 == IF bt # <<>> THEN Max2(t2, Last(bt)) ELSE t2
    IN  t3

\* faulty variant of InitialBarStarts: no [0.0] fallback for an empty beat grid
InitialBarStartsNoFallback(bt, bpb) ==
    [k \in 1..(IF bt = <<>> THEN 0 ELSE (Len(bt) - 1) \div bpb + 1) |-> bt[(k - 1) * bpb + 1]]

\* bar_starts = [beat_times[i] for i in range(0, len(beat_times), beats_per_bar)]
\*              if beat_times else [0.0]
InitialBarStarts(bt, bpb) ==
    IF bt # <<>>
    THEN [k \in 1..((Len(bt) - 1) \div bpb + 1) |-> bt[(k - 1) * bpb + 1]]
    ELSE <<0>>

\* diffs = [b - a for a, b in zip(beat_times, beat_times[1:])]
Diffs(bt) == [i \in 1..(Len(bt) - 1) |-> bt[i + 1] - bt[i]]

\* bar_len_est: median beat interval times beats_per_bar, or bar_len
BarLenEst(bt, bpb, bar_len) ==
    IF bt # <<>> /\ Len(bt) > 1 THEN Median(Diffs(bt)) * bpb ELSE bar_len

\* faulty variant of LyricBar: a segment whose start + grace is exactly a bar start
\* stays in the earlier bar (< for <=)
RECURSIVE LyricBarExclusive(_, _, _)
LyricBarExclusive(bs, s, idx) ==
    IF idx + 1 <= Len(bs) /\ bs[idx + 1] < s + grace
    THEN LyricBarExclusive(bs, s, idx + 1)
    ELSE idx

\* the while loop that finds a lyric's bar (bars are numbered from 1 here,
\* from 0 in the code): idx advances while the next bar starts at or before
\* s + grace
RECURSIVE LyricBar(_, _, _)
LyricBar(bs, s, idx) ==
    IF idx + 1 <= Len(bs) /\ bs[idx + 1] <= s + grace
    THEN LyricBar(bs, s, idx + 1)
    ELSE idx

\* bar_end of bar b
BarEnd(bs, est, b) == IF b + 1 <= Len(bs) THEN bs[b + 1] ELSE bs[b] + est

\* carry_over: the chord already sounding at bar start, as a list of 0 or 1 names
CarryOver(ch, cidx, bar_start) ==
    IF cidx # 0 /\ ch[cidx].onset < bar_start THEN <<ch[cidx].name>> ELSE <<>>

\* faulty variant of UnderCap: the cap is off by one
UnderCapOffByOne(in_bar) == Len(in_bar) <= 1 + MAX_CHANGES_PER_BAR

\* the display cap: len(chords_in_bar) < 1 + MAX_CHANGES_PER_BAR
UnderCap(in_bar) == Len(in_bar) < 1 + MAX_CHANGES_PER_BAR

\* faulty variant of ScanChords: a chord starting exactly at bar_end is taken by the
\* bar that ends there (<= for <)
RECURSIVE ScanChordsInclusiveEnd(_, _, _, _)
ScanChordsInclusiveEnd(ch, j, bar_end, in_bar) ==
    IF j < Len(ch) /\ ch[j + 1].onset <= bar_end
    THEN LET name == ch[j + 1].name
         IN  IF (in_bar = <<>> \/ name # Last(in_bar)) /\ UnderCap(in_bar)
             THEN ScanChordsInclusiveEnd(ch, j + 1, bar_end, Append(in_bar, name))
             ELSE ScanChordsInclusiveEnd(ch, j + 1, bar_end, in_bar)
    ELSE [j |-> j, chords_in_bar |-> in_bar]

\* the inner while loop: new changes inside the bar (capped); j counts the
\* chords consumed so far, so the next one is ch[j + 1]
RECURSIVE ScanChords(_, _, _, _)
ScanChords(ch, j, bar_end, in_bar) ==
    IF j < Len(ch) /\ ch[j + 1].onset < bar_end
    THEN LET name == ch[j + 1].name
         IN  IF (in_bar = <<>> \/ name # Last(in_bar)) /\ UnderCap(in_bar)
             THEN ScanChords(ch, j + 1, bar_end, Append(in_bar, name))
             ELSE ScanChords(ch, j + 1, bar_end, in_bar)
    ELSE [j |-> j, chords_in_bar |-> in_bar]

\* faulty variant of HideCarryOver: the carried-over chord is always shown
KeepCarryOver(carry, in_bar) == in_bar

\* hide carry-over if absolutely nothing new happened
HideCarryOver(carry, in_bar) ==
    IF carry # <<>> /\ Len(in_bar) = 1 THEN <<>> ELSE in_bar

\* chord_text = " ".join(chords_in_bar)
ChordText(in_bar) == Join(<<SP>>, [i \in DOMAIN in_bar |-> <<in_bar[i]>>])

\* faulty variant of MergedLyric: only the last text of the bar is kept
MergedLyricLastOnly(texts) == IF texts = <<>> THEN <<>> ELSE Strip(Last(texts))

\* merged_lyric = " ".join(lyrics_by_bar.get(bar, [])).strip()
MergedLyric(texts) == Strip(Join(<<SP>>, texts))

\* line = f"{chord_text}\t{merged_lyric}".rstrip()
Line(chord_text, merged_lyric) == RStrip(chord_text \o <<TAB>> \o merged_lyric)

\* faulty variant of AppendLine: a bar whose line is empty is skipped
AppendLineSkipEmpty(lines, line) == IF line = <<>> THEN lines ELSE Append(lines, line)

\* chart_lines.append(line): every bar appends its line, empty or not
AppendLine(lines, line) == Append(lines, line)

-----------------------------------------------------------------------------
(* format_chart: the inputs the model draws *)

RECURSIVE SortedSeq(_)
SortedSeq(S) ==
    IF S = {} THEN <<>>
    ELSE LET m == CHOOSE x \in S : \A y \in S : x <= y
         IN  <<m>> \o SortedSeq(S \ {m})

\* beat grids of n beats, as the beat tracker returns them: strictly
\* increasing, the first beat in firsts and every interval in gaps
RECURSIVE BeatGrids(_, _, _)
BeatGrids(firsts, gaps, n) ==
    IF n = 0 THEN {<<>>}
    ELSE IF n = 1 THEN {<<f>> : f \in firsts}
    ELSE {Append(g, Last(g) + d) : g \in BeatGrids(firsts, gaps, n - 1), d \in gaps}

\* chord lists of at most n events, as analyze_instrumental returns them:
\* one (name, onset) per analysed frame, onsets strictly increasing; the
\* similarity score is never read by format_chart and is left out
ChordLists(times, names, n) ==
    UNION { { [i \in 1..Cardinality(T) |->
                 [name |-> nm[i], onset |-> SortedSeq(T)[i]]]
              : nm \in [1..Cardinality(T) -> names] }
            : T \in {U \in SUBSET times : Cardinality(U) <= n} }

\* the text of the i-th lyric segment
Words == <<"hello", "world", "again", "and", "more">>

\* lyric lists of at most n segments (start, end, text), as transcribe
\* returns them; kinds gives (duration, has text) of a segment; the log
\* confidence is never read by format_chart and is left out
LyricLists(starts, kinds, n) ==
    UNION { { [i \in 1..k |->
                 [s |-> f[i][1], e |-> f[i][1] + f[i][2][1],
                  txt |-> IF f[i][2][2] THEN <<Words[i]>> ELSE <<>>]]
              : f \in [1..k -> starts \X kinds] }
            : k \in 0..n }

\* time signatures: "2/4", "4/4", and "3" (no slash)
TimeSigs == { <<"2", "/", "4">>, <<"4", "/", "4">>, <<"3">> }

\* Family A: every beat grid, sparse events anywhere up to past the last beat
InputsA ==
    [ time_sig   : TimeSigs,
      bpm        : {60, 120},
      beat_times : UNION {BeatGrids({0, 100}, {100, 200}, n) : n \in 0..MaxBeats},
      chords     : ChordLists({0, 220, 500, 1000}, {"C"}, 1),
      lyrics     : LyricLists({0, 350, 900}, {<<100, TRUE>>}, 1) ]

\* Family B: regular grids in 2/4, dense chord lists
InputsB ==
    [ time_sig   : { <<"2", "/", "4">> },
      bpm        : {120},
      beat_times : UNION {BeatGrids({0}, {100}, n) : n \in {0, 1, MaxBeats}},
      chords     : ChordLists({0, 20, 22, 100, 200, 222, 400}, {"C", "G"}, MaxChords),
      lyrics     : LyricLists({0, 250}, {<<100, TRUE>>}, 1) ]

\* Family C: regular grids in 2/4, lyric lists around the bar boundaries
InputsC ==
    [ time_sig   : { <<"2", "/", "4">> },
      bpm        : {120},
      beat_times : UNION {BeatGrids({0}, {100}, n) : n \in {0, 1, MaxBeats}},
      chords     : ChordLists({0, 100}, {"C", "G"}, 2),
      lyrics     : LyricLists({0, 148, 150, 348, 350},
                              {<<100, TRUE>>, <<0, TRUE>>, <<100, FALSE>>},
                              MaxLyrics) ]

Inputs == InputsA \cup InputsB \cup InputsC

-----------------------------------------------------------------------------
(* format_chart as a state machine: one action per loop iteration *)

\* get_bpm_from_drums is not running
NoBpm == [num |-> 0, den |-> 1]

NoOutcome == [kind |-> "none", msg |-> "", bpm |-> NoBpm, beat_times |-> <<>>]

TempoIdle ==
    /\ detected = <<>>
    /\ est_tempo = 0
    /\ drum_beat_times = <<>>
    /\ drum_bpm = NoBpm
    /\ raw_bpm = NoBpm
    /\ tpc = "idle"
    /\ outcome = NoOutcome

\* main is not running
MainIdle ==
    /\ input_dir = {}
    /\ cli = <<>>
    /\ files = <<>>
    /\ selection = <<>>
    /\ mpc = "idle"
    /\ file_i = 0
    /\ printed = <<>>

\* process_file is not running
ProcIdle ==
    /\ path = <<>>
    /\ disk = {}
    /\ uvr_stems = <<>>
    /\ demucs_stems = <<>>
    /\ score = 0
    /\ stems = <<>>
    /\ ppc = "idle"
    /\ pexc = "none"

\* overwrite_and_remove is not running
RemoveIdle ==
    /\ path_exists = FALSE
    /\ contents = <<>>
    /\ size = 0
    /\ opc = "idle"
    /\ rexc = "none"

SysIdle == MainIdle /\ ProcIdle /\ RemoveIdle

Init ==
    /\ \E in \in Inputs :
          /\ time_sig = in.time_sig
          /\ bpm = in.bpm
          /\ lyrics = in.lyrics
          /\ chords = in.chords
          /\ beat_times = in.beat_times
    /\ pc = "start"
    /\ exc = "none"
    /\ last_time = 0
    /\ bar_starts = <<>>
    /\ bar_len_est = 0
    /\ total_bars = 0
    /\ lyrics_by_bar = <<>>
    /\ lyric_i = 0
    /\ bar = 0
    /\ chord_idx = 0
    /\ chart_lines = <<>>
    /\ result = <<>>
    /\ TempoIdle
    /\ SysIdle

\* lines 132-156: beats_per_bar, last_time, the initial bar_starts
Setup ==
    /\ pc = "start"
    /\ last_time' = LastTime(lyrics, chords, beat_times)
    /\ bar_starts' = InitialBarStarts(beat_times, BeatsPerBar(time_sig))
    /\ pc' = "trim"
    /\ UNCHANGED tempoVars
    /\ UNCHANGED sysVars
    /\ UNCHANGED <<time_sig, bpm, lyrics, chords, beat_times, exc, bar_len_est,
                   total_bars, lyrics_by_bar, lyric_i, bar, chord_idx,
                   chart_lines, result>>

\* while len(bar_starts) > 1 and bar_starts[-1] >= last_time
TrimCond == Len(bar_starts) > 1 /\ Last(bar_starts) >= last_time

\* lines 158-159: drop a trailing bar that starts after the song ends
TrimBar ==
    /\ pc = "trim"
    /\ TrimCond
    /\ bar_starts' = SubSeq(bar_starts, 1, Len(bar_starts) - 1)
    /\ UNCHANGED tempoVars
    /\ UNCHANGED sysVars
    /\ UNCHANGED <<time_sig, bpm, lyrics, chords, beat_times, pc, exc, last_time,
                   bar_len_est, total_bars, lyrics_by_bar, lyric_i, bar,
                   chord_idx, chart_lines, result>>

\* lines 161-166: bar_len_est, once the trimming loop has ended
EstimateBarLen ==
    /\ pc = "trim"
    /\ ~TrimCond
    /\ bar_len_est' = BarLenEst(beat_times, BeatsPerBar(time_sig),
                                BarLen(bpm, BeatsPerBar(time_sig)))
    /\ pc' = "extend"
    /\ UNCHANGED tempoVars
    /\ UNCHANGED sysVars
    /\ UNCHANGED <<time_sig, bpm, lyrics, chords, beat_times, exc, last_time,
                   bar_starts, total_bars, lyrics_by_bar, lyric_i, bar,
                   chord_idx, chart_lines, result>>

\* while bar_starts[-1] + bar_len_est < last_time
ExtendCond == Last(bar_starts) + bar_len_est < last_time

\* faulty variant of ExtendBar: the last bar start is written again instead
\* of a new one being appended, so the loop never gets nearer to last_time
ExtendBarStuck ==
    /\ pc = "extend"
    /\ bar_starts # <<>>
    /\ ExtendCond
    /\ bar_starts' = [bar_starts EXCEPT ![Len(bar_starts)] = Last(bar_starts)]
    /\ UNCHANGED <<pc, exc>>
    /\ UNCHANGED tempoVars
    /\ UNCHANGED sysVars
    /\ UNCHANGED <<time_sig, bpm, lyrics, chords, beat_times, last_time,
                   bar_len_est, total_bars, lyrics_by_bar, lyric_i, bar,
                   chord_idx, chart_lines, result>>

\* lines 167-168: append a synthetic bar; bar_starts[-1] of an empty list
\* raises IndexError
ExtendBar ==
    /\ pc = "extend"
    /\ IF bar_starts = <<>>
       THEN /\ exc' = "IndexError"
            /\ pc' = "done"
            /\ UNCHANGED bar_starts
       ELSE /\ ExtendCond
            /\ bar_starts' = Append(bar_starts, Last(bar_starts) + bar_len_est)
            /\ UNCHANGED <<pc, exc>>
    /\ UNCHANGED tempoVars
    /\ UNCHANGED sysVars
    /\ UNCHANGED <<time_sig, bpm, lyrics, chords, beat_times, last_time,
                   bar_len_est, total_bars, lyrics_by_bar, lyric_i, bar,
                   chord_idx, chart_lines, result>>

\* lines 170-174: total_bars, the empty lyrics_by_bar
CountBars ==
    /\ pc = "extend"
    /\ bar_starts # <<>>
    /\ ~ExtendCond
    /\ total_bars' = Len(bar_starts)
    /\ lyrics_by_bar' = <<>>
    /\ lyric_i' = 0
    /\ pc' = "lyrics"
    /\ UNCHANGED tempoVars
    /\ UNCHANGED sysVars
    /\ UNCHANGED <<time_sig, bpm, lyrics, chords, beat_times, exc, last_time,
                   bar_starts, bar_len_est, bar, chord_idx, chart_lines, result>>

\* faulty variant of SetDefaultAppend: the text is put in front of the bar's list
SetDefaultPrepend(d, idx, txt) ==
    IF idx \in DOMAIN d
    THEN [d EXCEPT ![idx] = <<txt>> \o @]
    ELSE [k \in DOMAIN d \cup {idx} |-> IF k = idx THEN <<txt>> ELSE d[k]]

\* lyrics_by_bar.setdefault(idx, []).append(txt)
SetDefaultAppend(d, idx, txt) ==
    IF idx \in DOMAIN d
    THEN [d EXCEPT ![idx] = Append(@, txt)]
    ELSE [k \in DOMAIN d \cup {idx} |-> IF k = idx THEN <<txt>> ELSE d[k]]

\* lyrics_by_bar.get(b, [])
GetOrEmpty(d, b) == IF b \in DOMAIN d THEN d[b] ELSE <<>>

\* lines 175-179: one iteration of the lyric indexing loop
IndexLyric ==
    /\ pc = "lyrics"
    /\ lyric_i < Len(lyrics)
    /\ LET seg == lyrics[lyric_i + 1]
           idx == LyricBar(bar_starts, seg.s, 1)
       IN  lyrics_by_bar' = SetDefaultAppend(lyrics_by_bar, idx, seg.txt)
    /\ lyric_i' = lyric_i + 1
    /\ UNCHANGED tempoVars
    /\ UNCHANGED sysVars
    /\ UNCHANGED <<time_sig, bpm, lyrics, chords, beat_times, pc, exc, last_time,
                   bar_starts, bar_len_est, total_bars, bar, chord_idx,
                   chart_lines, result>>

\* lines 181-182: chart_lines = [], chord_idx = 0
StartBars ==
    /\ pc = "lyrics"
    /\ lyric_i = Len(lyrics)
    /\ chart_lines' = <<>>
    /\ chord_idx' = 0
    /\ bar' = 0
    /\ pc' = "bars"
    /\ UNCHANGED tempoVars
    /\ UNCHANGED sysVars
    /\ UNCHANGED <<time_sig, bpm, lyrics, chords, beat_times, exc, last_time,
                   bar_starts, bar_len_est, total_bars, lyrics_by_bar, lyric_i,
                   result>>

\* lines 184-216: one iteration of the bar loop; bar counts the finished bars
ChartBar ==
    /\ pc = "bars"
    /\ bar < total_bars
    /\ LET b            == bar + 1
           bar_start    == bar_starts[b]
           bar_end      == BarEnd(bar_starts, bar_len_est, b)
           merged_lyric == MergedLyric(GetOrEmpty(lyrics_by_bar, b))
           carry_over   == CarryOver(chords, chord_idx, bar_start)
           scan         == ScanChords(chords, chord_idx, bar_end, carry_over)
           chords_in_bar == HideCarryOver(carry_over, scan.chords_in_bar)
           line         == Line(ChordText(chords_in_bar), merged_lyric)
       IN  /\ chord_idx' = scan.j
           /\ chart_lines' = AppendLine(chart_lines, line)
    /\ bar' = bar + 1
    /\ UNCHANGED tempoVars
    /\ UNCHANGED sysVars
    /\ UNCHANGED <<time_sig, bpm, lyrics, chords, beat_times, pc, exc, last_time,
                   bar_starts, bar_len_est, total_bars, lyrics_by_bar, lyric_i,
                   result>>

\* line 218: return "\n".join(header + chart_lines), kept as the list of lines
Return ==
    /\ pc = "bars"
    /\ bar = total_bars
    /\ result' = Header \o chart_lines
    /\ pc' = "done"
    /\ UNCHANGED tempoVars
    /\ UNCHANGED sysVars
    /\ UNCHANGED <<time_sig, bpm, lyrics, chords, beat_times, exc, last_time,
                   bar_starts, bar_len_est, total_bars, lyrics_by_bar, lyric_i,
                   bar, chord_idx, chart_lines>>

Next ==
    \/ Setup
    \/ TrimBar
    \/ EstimateBarLen
    \/ ExtendBar
    \/ CountBars
    \/ IndexLyric
    \/ StartBars
    \/ ChartBar
    \/ Return

Spec == Init /\ [][Next]_vars

\* the interpreter keeps running format_chart
SpecFair == Spec /\ WF_vars(Next)

-----------------------------------------------------------------------------
(* get_bpm_from_drums (bpm_drums.py)                                        *)
(*                                                                          *)
(* Beat times and intervals are in ticks of 5 ms.  A BPM is the exact       *)
(* fraction num / den; est_tempo is a whole number of BPM.  A median is     *)
(* kept doubled, so that the mean of two middle intervals stays a whole     *)
(* number.                                                                  *)

\* format_chart is not running
ChartIdle ==
    /\ time_sig = <<>>
    /\ bpm = 0
    /\ lyrics = <<>>
    /\ chords = <<>>
    /\ beat_times = <<>>
    /\ pc = "idle"
    /\ exc = "none"
    /\ last_time = 0
    /\ bar_starts = <<>>
    /\ bar_len_est = 0
    /\ total_bars = 0
    /\ lyrics_by_bar = <<>>
    /\ lyric_i = 0
    /\ bar = 0
    /\ chord_idx = 0
    /\ chart_lines = <<>>
    /\ result = <<>>

\* ibi = np.diff(beat_times)
NpDiff(bt) == [i \in 1..(Len(bt) - 1) |-> bt[i + 1] - bt[i]]

\* 2 * np.median(x) of a non-empty array
Median2(x) ==
    LET srt == SortSeq(x, LAMBDA a, b : a < b)
        n   == Len(x)
    IN  IF n % 2 = 1 THEN 2 * srt[(n + 1) \div 2]
        ELSE srt[n \div 2] + srt[n \div 2 + 1]

\* faulty variant of InBand: the limits themselves are inside (>= and <=)
InBandInclusive(x, med2) == 20 * x >= 7 * med2 /\ 20 * x <= 13 * med2

\* (ibi > 0.7 * med) & (ibi < 1.3 * med), med2 being twice the median
InBand(x, med2) == 20 * x > 7 * med2 /\ 20 * x < 13 * med2

\* good = ibi[(ibi > 0.7 * med) & (ibi < 1.3 * med)]
Good(ibi) == SelectSeq(ibi, LAMBDA x : InBand(x, Median2(ibi)))

\* len(good) < max(3, 0.5 * len(ibi))
TooFewGood(good, ibi) == Len(good) < 3 \/ 2 * Len(good) < Len(ibi)

\* bpm = 60.0 / float(np.median(good)): 60 s over (med2 / 2) ticks of 5 ms
BpmOf(good) == [num |-> 24000, den |-> Median2(good)]

\* faulty variant of HalveWhile: 160 itself is halved (>= for >)
RECURSIVE HalveWhileAtLeast(_)
HalveWhileAtLeast(b) ==
    IF b.num >= 160 * b.den THEN HalveWhileAtLeast([b EXCEPT !.den = 2 * @]) ELSE b

\* while bpm > 160: bpm /= 2
RECURSIVE HalveWhile(_)
HalveWhile(b) ==
    IF b.num > 160 * b.den THEN HalveWhile([b EXCEPT !.den = 2 * @]) ELSE b

\* faulty variant of DoubleWhile: the bpm is doubled once (if for while)
DoubleOnce(b) == IF b.num < 60 * b.den THEN [b EXCEPT !.num = 2 * @] ELSE b

\* while bpm < 60: bpm *= 2
RECURSIVE DoubleWhile(_)
DoubleWhile(b) ==
    IF b.num < 60 * b.den THEN DoubleWhile([b EXCEPT !.num = 2 * @]) ELSE b

\* lines 102-105: the octave folding
FoldOctave(b) == DoubleWhile(HalveWhile(b))

\* faulty variant of Reliable: only the upper limit is checked
ReliableUpperOnly(est, b) == 10 * b.num <= 11 * est * b.den

\* 0.9 * est_tempo <= bpm <= 1.1 * est_tempo
Reliable(est, b) == 9 * est * b.den <= 10 * b.num /\ 10 * b.num <= 11 * est * b.den

Raise(kind, msg) == [kind |-> kind, msg |-> msg, bpm |-> NoBpm, beat_times |-> <<>>]

\* ---- the body of the function from line 90 on, given its two locals

\* lines 90-91
CheckCount ==
    /\ tpc = "count"
    /\ IF Len(drum_beat_times) < 4
       THEN outcome' = Raise("RuntimeError", "Too few beats detected") /\ tpc' = "done"
       ELSE outcome' = outcome /\ tpc' = "filter"
    /\ UNCHANGED <<detected, est_tempo, drum_beat_times, drum_bpm, raw_bpm>>
    /\ UNCHANGED chartVars
    /\ UNCHANGED sysVars

\* lines 93-100
FilterIntervals ==
    /\ tpc = "filter"
    /\ LET ibi  == NpDiff(drum_beat_times)
           good == Good(ibi)
       IN  IF TooFewGood(good, ibi)
           THEN /\ outcome' = Raise("RuntimeError", "Inconsistent beat intervals")
                /\ tpc' = "done"
                /\ UNCHANGED <<drum_bpm, raw_bpm>>
           ELSE /\ drum_bpm' = BpmOf(good)
                /\ raw_bpm' = BpmOf(good)
                /\ tpc' = "fold"
                /\ outcome' = outcome
    /\ UNCHANGED <<detected, est_tempo, drum_beat_times>>
    /\ UNCHANGED chartVars
    /\ UNCHANGED sysVars

\* lines 102-105
FoldBpm ==
    /\ tpc = "fold"
    /\ drum_bpm' = FoldOctave(drum_bpm)
    /\ tpc' = "check"
    /\ UNCHANGED <<detected, est_tempo, drum_beat_times, raw_bpm, outcome>>
    /\ UNCHANGED chartVars
    /\ UNCHANGED sysVars

\* lines 107-117
CheckReliable ==
    /\ tpc = "check"
    /\ IF ~Reliable(est_tempo, drum_bpm)
       THEN outcome' = Raise("RuntimeError", "Unreliable BPM")
       ELSE outcome' = [kind |-> "return", msg |-> "", bpm |-> drum_bpm,
                        beat_times |-> drum_beat_times]
    /\ tpc' = "done"
    /\ UNCHANGED <<detected, est_tempo, drum_beat_times, drum_bpm, raw_bpm>>
    /\ UNCHANGED chartVars
    /\ UNCHANGED sysVars

\* beat lists of a drum stem: strictly increasing, as librosa's beat tracker
\* gives them
DrumBeatLists ==
    UNION {BeatGrids({0}, {70, 100, 130, 500}, n) : n \in 0..MaxDrumBeats}

\* tempo estimates in BPM
EstTempos == {48, 60, 96, 109, 110, 120, 133, 134}

\* raw BPMs given to the folding
RawBpms == {[num |-> n, den |-> d] : n \in 1..MaxRawBpm, d \in {1, 3}}

\* lines 90-117 for every value of the locals est_tempo and beat_times
InitResolve ==
    /\ ChartIdle
    /\ SysIdle
    /\ detected = <<>>
    /\ est_tempo \in EstTempos
    /\ drum_beat_times \in DrumBeatLists
    /\ drum_bpm = NoBpm
    /\ raw_bpm = NoBpm
    /\ tpc = "count"
    /\ outcome = NoOutcome

NextResolve == CheckCount \/ FilterIntervals \/ FoldBpm \/ CheckReliable

SpecResolve == InitResolve /\ [][NextResolve]_vars

\* lines 102-105 for every raw bpm
InitFold ==
    /\ ChartIdle
    /\ SysIdle
    /\ detected = <<>>
    /\ est_tempo = 0
    /\ drum_beat_times = <<>>
    /\ drum_bpm \in RawBpms
    /\ raw_bpm = drum_bpm
    /\ tpc = "fold"
    /\ outcome = NoOutcome

NextFold == FoldBpm

SpecFold == InitFold /\ [][NextFold]_vars

\* ---- the call as a whole

\* lines 84-85: Demucs runs; it may fail or leave no drums.wav
SeparateDrums ==
    /\ tpc = "call"
    /\ \E ok \in BOOLEAN :
          IF ok
          THEN tpc' = "detect" /\ outcome' = outcome
          ELSE tpc' = "done" /\ outcome' = Raise("RuntimeError", "drums.wav not produced")
    /\ UNCHANGED <<detected, est_tempo, drum_beat_times, drum_bpm, raw_bpm>>
    /\ UNCHANGED chartVars
    /\ UNCHANGED sysVars

\* lines 87-91: est_tempo, beat_times = _librosa_beats(...).  _librosa_beats
\* returns the list of beat times alone (line 75; the tempo of beat_track is
\* dropped at line 68), so the unpacking raises ValueError unless the list
\* has exactly two entries, and then beat_times is a float and len(beat_times)
\* at line 90 raises TypeError.
UnpackBeats ==
    /\ tpc = "detect"
    /\ IF Len(detected) # 2
       THEN /\ outcome' = Raise("ValueError", "unpack")
            /\ UNCHANGED est_tempo
       ELSE /\ outcome' = Raise("TypeError", "object of type 'float' has no len()")
            /\ est_tempo' = detected[1]
    /\ tpc' = "done"
    /\ UNCHANGED <<detected, drum_beat_times, drum_bpm, raw_bpm>>
    /\ UNCHANGED chartVars
    /\ UNCHANGED sysVars

InitBpm ==
    /\ ChartIdle
    /\ SysIdle
    /\ detected \in DrumBeatLists
    /\ est_tempo = 0
    /\ drum_beat_times = <<>>
    /\ drum_bpm = NoBpm
    /\ raw_bpm = NoBpm
    /\ tpc = "call"
    /\ outcome = NoOutcome

NextBpm == SeparateDrums \/ UnpackBeats

SpecBpm == InitBpm /\ [][NextBpm]_vars

\* the call as a whole ends with an exception for every detection
NeverReturns == outcome.kind # "return"

-----------------------------------------------------------------------------
(* What the chart claims speak about, stated from the inputs and the final  *)
(* bar grid, not from the cursor and the dictionary the code keeps          *)

Bars == 1..Len(bar_starts)

BStart(b) == bar_starts[b]

BEnd(b) == IF b < Len(bar_starts) THEN bar_starts[b + 1] ELSE bar_starts[b] + bar_len_est

\* the onset lies in [barStart, barEnd)
OnsetStrictlyInBar(t, b) == BStart(b) <= t /\ t < BEnd(b)

\* the same, the first bar also taking what starts before it
OnsetInBar(t, b) == t < BEnd(b) /\ (b = 1 \/ BStart(b) <= t)

NamesOf(ch) == [i \in DOMAIN ch |-> ch[i].name]

\* names of the chords whose onset falls in bar b, in list order
InBarNames(b) == NamesOf(SelectSeq(chords, LAMBDA c : OnsetInBar(c.onset, b)))

\* a chord from an earlier bar is sounding at the start of bar b
HasSounding(b) == b > 1 /\ \E k \in DOMAIN chords : chords[k].onset < BStart(b)

SoundingName(b) ==
    LET k == CHOOSE i \in DOMAIN chords :
                 /\ chords[i].onset < BStart(b)
                 /\ \A j \in DOMAIN chords :
                        chords[j].onset < BStart(b) => chords[j].onset <= chords[i].onset
    IN  chords[k].name

\* the bar a lyric segment starting at s belongs to: the one whose interval
\* holds s + grace, the first and the last bar taking what falls outside
LyricInBar(s, b) ==
    /\ b = 1 \/ BStart(b) <= s + grace
    /\ b = Len(bar_starts) \/ s + grace < BStart(b + 1)

TextsOf(ly) == [i \in DOMAIN ly |-> ly[i].txt]

LyricsOfBar(b) == TextsOf(SelectSeq(lyrics, LAMBDA seg : LyricInBar(seg.s, b)))

\* the lyric column as the chart shows it
LyricColumn(b) == Strip(Join(<<SP>>, LyricsOfBar(b)))

AsStrs(names) == [i \in DOMAIN names |-> <<names[i]>>]

\* the chord labels a chart line shows: the tokens before the tab
RECURSIVE BeforeTab(_)
BeforeTab(line) ==
    IF line = <<>> \/ Head(line) = TAB THEN <<>>
    ELSE <<Head(line)>> \o BeforeTab(Tail(line))

Labels(line) == SelectSeq(BeforeTab(line), LAMBDA t : t # SP)

RECURSIVE IsSubseq(_, _)
IsSubseq(a, b) ==
    IF a = <<>> THEN TRUE
    ELSE IF b = <<>> THEN FALSE
    ELSE IF Head(a) = Head(b) THEN IsSubseq(Tail(a), Tail(b))
    ELSE IsSubseq(a, Tail(b))

NoRepeats(names) == \A i \in 1..(Len(names) - 1) : names[i] # names[i + 1]

AbsDiff(a, b) == IF a >= b THEN a - b ELSE b - a

\* farther than 0.10 s (20 ticks) from every beat
FarFromBeats(t) == \A i \in DOMAIN beat_times : AbsDiff(t, beat_times[i]) > 20

-----------------------------------------------------------------------------
(* C1 *)

\* C1: format_chart emits exactly one chart line per bar, in bar order: the
\* lines after the header are as many as the bars of the bar grid (after
\* trimming and extension), and a bar with neither chord nor lyric still has
\* its (empty) line.
C1_OneLinePerBar ==
    /\ (pc = "bars" => Len(chart_lines) = bar /\ total_bars = Len(bar_starts))
    /\ (pc = "done" =>
          /\ Len(result) = Len(Header) + Len(bar_starts)
          /\ \A b \in Bars :
                /\ result[Len(Header) + b] = chart_lines[b]
                /\ (InBarNames(b) = <<>> /\ LyricsOfBar(b) = <<>>)
                       => chart_lines[b] = <<>>)

\* an empty bar between the first bar and a later bar with content
C1_Witness ==
    /\ pc = "done"
    /\ \E b \in Bars :
          /\ 1 < b /\ b < Len(bar_starts)
          /\ InBarNames(b) = <<>> /\ LyricsOfBar(b) = <<>>
          /\ result[Len(Header) + b] = <<>>
          /\ result[Len(Header) + b + 1] # <<>>

-----------------------------------------------------------------------------
(* C2 *)

\* C2 as claimed: for every bar the line is the labels of the chords whose
\* onset falls in that bar, in onset order, joined by single spaces, then a
\* tab, then the texts of the lyric segments of the bar joined by single
\* spaces, with trailing whitespace stripped.  (The first bar is read as
\* taking the chords that start before it, so that the claim is not refuted
\* by that edge alone.)
C2_AsClaimed ==
    pc = "done" =>
        \A b \in Bars :
            chart_lines[b] =
                RStrip(Join(<<SP>>, AsStrs(InBarNames(b)))
                       \o <<TAB>> \o LyricColumn(b))

\* a bar the plain merge applies to: no chord sounding from before it, no
\* two consecutive onsets with the same label, at most 1 + MAX_CHANGES_PER_BAR
\* onsets
PlainBar(b) ==
    /\ ~HasSounding(b)
    /\ NoRepeats(InBarNames(b))
    /\ Len(InBarNames(b)) <= 1 + MAX_CHANGES_PER_BAR

\* C2 amended: for every bar with no chord sounding from an earlier bar, at
\* most three chord onsets and no two consecutive onsets of the same label,
\* the line is the labels of the chords whose onset falls in the bar (the
\* first bar also takes the chords that start before it), joined by single
\* spaces, a tab, the texts of the bar's lyric segments in their original
\* order joined by single spaces, with trailing whitespace stripped.
C2_SameBarMerge ==
    pc = "done" =>
        \A b \in Bars :
            PlainBar(b) =>
                chart_lines[b] =
                    RStrip(Join(<<SP>>, AsStrs(InBarNames(b)))
                           \o <<TAB>> \o LyricColumn(b))

\* the example of the claim: two chords and two lyric segments in one bar
C2_Witness ==
    /\ pc = "done"
    /\ \E b \in Bars :
          /\ PlainBar(b)
          /\ InBarNames(b) = <<"C", "G">>
          /\ chart_lines[b] = <<"C", SP, "G", TAB, "hello", SP, "world">>

-----------------------------------------------------------------------------
(* C3 *)

\* no chord with a new label starts in bar b
NothingNew(b) ==
    \/ InBarNames(b) = <<>>
    \/ /\ HasSounding(b)
       /\ \A i \in DOMAIN InBarNames(b) : InBarNames(b)[i] = SoundingName(b)

\* C3: a bar in which no chord with a new label starts (no onset in the bar,
\* or only onsets repeating the label sounding at barStart) shows an empty
\* chord column: its line is the tab plus the bar's lyric text (trailing
\* whitespace stripped, as for every line).
C3_CarryOverHidden ==
    pc = "done" =>
        \A b \in Bars :
            NothingNew(b) => chart_lines[b] = RStrip(<<TAB>> \o LyricColumn(b))

\* a chord is sounding from an earlier bar, the bar only repeats its label,
\* and the line is the tab and the lyric
C3_Witness ==
    /\ pc = "done"
    /\ \E b \in Bars :
          /\ HasSounding(b)
          /\ InBarNames(b) # <<>>
          /\ NothingNew(b)
          /\ chart_lines[b] = <<TAB, "hello">>

-----------------------------------------------------------------------------
(* C4 *)

\* the labels of line b that are not the carried-over one
FreshLabels(b) ==
    LET shown == Labels(chart_lines[b])
    IN  IF HasSounding(b) /\ shown # <<>> THEN Tail(shown) ELSE shown

\* C4: no bar line shows more than 1 + MAX_CHANGES_PER_BAR = 3 chord labels,
\* however many onsets fall in the bar, and a change dropped by the cap is
\* not shown as a new chord later: the labels a line shows after the
\* carried-over one belong to chords whose onset is in that very bar.
C4_ChordCap ==
    pc = "done" =>
        \A b \in Bars :
            /\ Len(Labels(chart_lines[b])) <= 1 + MAX_CHANGES_PER_BAR
            /\ IsSubseq(FreshLabels(b), InBarNames(b))

\* four changes in one bar, three labels shown, and a later bar with a new
\* chord of its own
C4_Witness ==
    /\ pc = "done"
    /\ \E b \in Bars :
          /\ Len(InBarNames(b)) >= 4
          /\ NoRepeats(InBarNames(b))
          /\ Len(Labels(chart_lines[b])) = 3
          /\ b < Len(bar_starts)
          /\ InBarNames(b + 1) # <<>>
          /\ Len(Labels(chart_lines[b + 1])) = 2

-----------------------------------------------------------------------------
(* C5 *)

-----------------------------------------------------------------------------
(* C6 *)

\* the text of lyric k stands on line b
OnLine(k, b) == Words[k] \in Range(chart_lines[b])

\* C6: each lyric segment goes to the bar whose interval [barStart, barEnd)
\* holds start + 0.25 s: its text is on that bar's line and on no other.
C6_LyricGrace ==
    pc = "done" =>
        \A k \in DOMAIN lyrics : \A b \in Bars :
            ( /\ lyrics[k].txt # <<>>
              /\ OnsetStrictlyInBar(lyrics[k].s + grace, b) )
            => /\ OnLine(k, b)
               /\ \A c \in Bars \ {b} : ~OnLine(k, c)

\* one segment starts exactly 0.25 s before a bar boundary and is on the
\* following bar's line, another starts 0.26 s before it and stays
C6_Witness ==
    /\ pc = "done"
    /\ \E b \in Bars : \E k, m \in DOMAIN lyrics :
          /\ b > 1
          /\ lyrics[k].s + grace = BStart(b)
          /\ OnLine(k, b)
          /\ lyrics[m].s + grace = BStart(b) - 2
          /\ OnLine(m, b - 1)

-----------------------------------------------------------------------------
(* C10 *)

\* C10: format_chart never raises on degenerate inputs (empty beat grid,
\* empty chord list, empty lyric list, events after the last beat): no step
\* raises, every step before the return has a next step, the chart returned
\* has at least one bar line, and with beats, chords and lyrics all empty it
\* has exactly one line, which is empty.
C10_NeverRaises ==
    /\ exc = "none"
    /\ (pc # "done" => ENABLED Next)
    /\ (pc = "done" =>
          /\ result = Header \o chart_lines
          /\ Len(chart_lines) >= 1
          /\ (beat_times = <<>> /\ chords = <<>> /\ lyrics = <<>>)
                => chart_lines = << <<>> >>)

\* everything empty: one synthetic bar, one empty line
C10_Witness ==
    /\ pc = "done"
    /\ beat_times = <<>> /\ chords = <<>> /\ lyrics = <<>>
    /\ Len(bar_starts) = 1
    /\ result = Header \o << <<>> >>

-----------------------------------------------------------------------------
(* What the tempo claims speak about *)

\* 60 <= b <= 160
InRange(b) == 60 * b.den <= b.num /\ b.num <= 160 * b.den

\* b differs from est by more than 10% of est
MoreThanTenPercentOff(est, b) == 10 * AbsDiff(b.num, est * b.den) > est * b.den

StrictlyIncreasing(s) == \A i \in 1..(Len(s) - 1) : s[i] < s[i + 1]

-----------------------------------------------------------------------------
(* C7 *)

\* C7: for any raw BPM > 0 the halve-while->160 / double-while-<60 folding
\* ends with a value in [60, 160]; a value already in [60, 160] is left
\* unchanged, and folding the result again changes nothing.
C7_OctaveFolding ==
    tpc = "check" =>
        /\ InRange(drum_bpm)
        /\ (InRange(raw_bpm) => drum_bpm = raw_bpm)
        /\ FoldOctave(drum_bpm) = drum_bpm

\* a raw BPM above 320 (halved at least twice) has been folded into range
C7_Witness ==
    /\ tpc = "check"
    /\ raw_bpm.num > 320 * raw_bpm.den
    /\ InRange(drum_bpm)
    /\ drum_bpm # raw_bpm

-----------------------------------------------------------------------------
(* C8 *)

-----------------------------------------------------------------------------
(* C9 *)

-----------------------------------------------------------------------------
(* main (ultimate_chord_reader.py)                                          *)
(*                                                                          *)
(* A file of input_songs/ is the pair (stem, suffix) of its name.           *)

\* the names input_songs/ may hold, in the order sorted() gives them
DirEntries == << <<"a", ".mp3">>, <<"b", ".WAV">>, <<"c", ".txt">>, <<"d", ".flac">> >>

\* a track name of the command line that is not in input_songs/
Missing == <<"zz", ".mp3">>

\* audio_exts
audio_exts == {".mp3", ".wav", ".flac", ".m4a", ".ogg"}

\* str.lower() of a suffix
Lower(suffix) == IF suffix = ".WAV" THEN ".wav" ELSE suffix

\* sorted(p for p in INPUT_DIR.iterdir() if p.is_file() and
\*        p.suffix.lower() in audio_exts)
AudioFiles(dir) ==
    SelectSeq(DirEntries, LAMBDA e : e \in dir /\ Lower(e[2]) \in audio_exts)

\* [p for p in files if p.name in wanted]
Wanted(fs, wanted) == SelectSeq(fs, LAMBDA e : e \in wanted)

\* what process_file(path) can end with: the imports of lines 226-228 fail, or
\* the call separate_and_score(path, tmpdir) of line 231 raises TypeError,
\* separate_and_score taking one positional argument (separation_manager.py
\* line 36)
ProcessFileOutcomes == {"ModuleNotFoundError", "TypeError"}

\* the classes derived from Exception
ExceptionClasses ==
    {"ModuleNotFoundError", "ImportError", "TypeError", "ValueError",
     "RuntimeError", "FileNotFoundError", "OSError"}

\* faulty variant of Caught: the handler is "except RuntimeError"
CaughtRuntimeErrorOnly(o) == o \in {"RuntimeError"}

\* except Exception as exc
Caught(o) == o \in ExceptionClasses

\* line 261: ensure_dependencies(); pip may fail
EnsureDependencies ==
    /\ mpc = "start"
    /\ \E ok \in BOOLEAN :
          IF ok
          THEN mpc' = "list" /\ printed' = printed
          ELSE mpc' = "raised" /\ printed' = Append(printed, <<"CalledProcessError">>)
    /\ UNCHANGED <<input_dir, cli, files, selection, file_i>>
    /\ UNCHANGED <<chartVars, tempoVars, procVars, rmVars>>

\* lines 263-268
ListFiles ==
    /\ mpc = "list"
    /\ files' = AudioFiles(input_dir)
    /\ IF AudioFiles(input_dir) = <<>>
       THEN mpc' = "done" /\ printed' = Append(printed, <<"No audio files found">>)
       ELSE mpc' = "select" /\ printed' = printed
    /\ UNCHANGED <<input_dir, cli, selection, file_i>>
    /\ UNCHANGED <<chartVars, tempoVars, procVars, rmVars>>

\* lines 288-312
Select ==
    /\ mpc = "select"
    /\ LET sel == IF cli.all THEN files
                  ELSE IF cli.tracks # {} THEN Wanted(files, cli.tracks)
                  ELSE IF cli.select_all THEN files
                  ELSE Wanted(files, cli.yes)
           not_found == cli.tracks \ Range(sel)
       IN  /\ selection' = sel
           /\ IF ~cli.all /\ cli.tracks # {} /\ not_found # {}
              THEN mpc' = "done" /\ printed' = Append(printed, <<"Not found", not_found>>)
              ELSE IF sel = <<>>
              THEN mpc' = "done" /\ printed' = Append(printed, <<"Nothing selected">>)
              ELSE mpc' = "mkdir" /\ printed' = printed
    /\ UNCHANGED <<input_dir, cli, files, file_i>>
    /\ UNCHANGED <<chartVars, tempoVars, procVars, rmVars>>

\* line 314: OUTPUT_DIR.mkdir(exist_ok=True); the file system may refuse
MakeOutputDir ==
    /\ mpc = "mkdir"
    /\ \E ok \in BOOLEAN :
          IF ok
          THEN mpc' = "for" /\ printed' = printed
          ELSE mpc' = "raised" /\ printed' = Append(printed, <<"OSError">>)
    /\ UNCHANGED <<input_dir, cli, files, selection, file_i>>
    /\ UNCHANGED <<chartVars, tempoVars, procVars, rmVars>>

\* lines 315-316: the next file of selection, or the end of the loop
ForFile ==
    /\ mpc = "for"
    /\ IF file_i < Len(selection)
       THEN /\ file_i' = file_i + 1
            /\ printed' = Append(printed, <<"Processing", selection[file_i + 1]>>)
            /\ mpc' = "try"
       ELSE /\ mpc' = "done"
            /\ UNCHANGED <<file_i, printed>>
    /\ UNCHANGED <<input_dir, cli, files, selection>>
    /\ UNCHANGED <<chartVars, tempoVars, procVars, rmVars>>

\* lines 317-321: the try statement around process_file
TryProcessFile ==
    /\ mpc = "try"
    /\ \E o \in ProcessFileOutcomes :
          IF o = "return"
          THEN /\ printed' = Append(printed, <<"Saved chart to", selection[file_i]>>)
               /\ mpc' = "for"
          ELSE IF Caught(o)
          THEN /\ printed' = Append(printed, <<"Failed on", selection[file_i], o>>)
               /\ mpc' = "for"
          ELSE /\ printed' = Append(printed, <<o>>)
               /\ mpc' = "raised"
    /\ UNCHANGED <<input_dir, cli, files, selection, file_i>>
    /\ UNCHANGED <<chartVars, tempoVars, procVars, rmVars>>

\* the command lines and answers: --all, TRACK names, "Select all?" and the
\* files answered y
CommandLines ==
    [ all        : BOOLEAN,
      tracks     : SUBSET {DirEntries[1], DirEntries[2], DirEntries[4], Missing},
      select_all : BOOLEAN,
      yes        : SUBSET {DirEntries[1], DirEntries[2], DirEntries[4]} ]

InitMain ==
    /\ ChartIdle
    /\ TempoIdle
    /\ ProcIdle
    /\ RemoveIdle
    /\ input_dir \in SUBSET Range(DirEntries)
    /\ cli \in CommandLines
    /\ files = <<>>
    /\ selection = <<>>
    /\ mpc = "start"
    /\ file_i = 0
    /\ printed = <<>>

NextMain ==
    \/ EnsureDependencies
    \/ ListFiles
    \/ Select
    \/ MakeOutputDir
    \/ ForFile
    \/ TryProcessFile

SpecMain == InitMain /\ [][NextMain]_vars

\* the interpreter keeps running main
SpecMainFair == SpecMain /\ WF_vars(NextMain)

-----------------------------------------------------------------------------
(* C11 *)

\* the files whose processing was started, in the order of the messages
Attempted ==
    LET ps == SelectSeq(printed, LAMBDA m : m[1] = "Processing")
    IN  [i \in DOMAIN ps |-> ps[i][2]]

\* the files reported as failed
Reported ==
    LET ps == SelectSeq(printed, LAMBDA m : m[1] = "Failed on")
    IN  [i \in DOMAIN ps |-> ps[i][2]]

\* every file of selection has been attempted, in order
AllAttempted == mpc = "done" /\ Attempted = selection

\* C11: in main every selected file is processed in order, and a failure while
\* processing one file is reported and skipped without aborting the batch:
\* the files attempted so far are always the first files of selection, no
\* exception leaves the loop, a failed file is reported before the next one
\* is started, and once the loop is entered main ends with every selected
\* file attempted.
C11_BatchIsolation ==
    /\ [](file_i > 0 => /\ mpc # "raised"
                        /\ Attempted = SubSeq(selection, 1, file_i)
                        /\ (mpc = "for" => Len(printed) = 2 * file_i))
    /\ (mpc = "for" ~> AllAttempted)

\* the first of three selected files failed and was reported, and the third
\* is being processed
C11_Witness ==
    /\ mpc = "try"
    /\ Len(selection) = 3
    /\ file_i = 3
    /\ Reported = SubSeq(selection, 1, 2)
    /\ Attempted = selection

-----------------------------------------------------------------------------
(* process_file (ultimate_chord_reader.py) and separate_and_score          *)
(* (models/separation_manager.py)                                           *)
(*                                                                          *)
(* A stem file is (directory, song, name): the directories uvr, demucs and  *)
(* final lie in the directory separate_and_score makes with                 *)
(* tempfile.mkdtemp(), which is not the TemporaryDirectory of process_file. *)

\* the stems run_uvr writes into uvr_dir
UvrStems == << <<"uvr", "", "vocals.wav">>, <<"uvr", "", "instrumental.wav">> >>

\* the stems run_demucs writes into demucs_dir / <stem of the input>
DemucsStems(p) == << <<"demucs", p[1], "vocals.wav">>, <<"demucs", p[1], "no_vocals.wav">> >>

\* final_vocal, final_inst
FinalStems == << <<"final", "", "vocals.wav">>, <<"final", "", "instrumental.wav">> >>

\* Python's None for a pair of stems
None == <<>>

\* what a separation tool can end with: both stems written; nothing written
\* and FileNotFoundError; one stem written and RuntimeError
ToolOutcomes == {"stems", "FileNotFoundError", "RuntimeError"}

\* the files a tool leaves in its directory
Written(o, pair) ==
    IF o = "stems" THEN Range(pair)
    ELSE IF o = "RuntimeError" THEN {pair[1]}
    ELSE {}

\* ---- process_file as written

\* lines 226-228: the imports inside process_file
ImportPipeline ==
    /\ ppc = "import"
    /\ \E ok \in BOOLEAN :
          IF ok
          THEN ppc' = "call" /\ pexc' = pexc
          ELSE ppc' = "done" /\ pexc' = "ModuleNotFoundError"
    /\ UNCHANGED <<path, disk, uvr_stems, demucs_stems, score, stems>>
    /\ UNCHANGED <<chartVars, tempoVars, mainVars, rmVars>>

\* lines 230-231: separate_and_score(path, tmpdir) gives two positional
\* arguments to a function that takes one, so the call raises TypeError
\* before the body of separate_and_score runs
CallSeparate ==
    /\ ppc = "call"
    /\ ppc' = "done"
    /\ pexc' = "TypeError"
    /\ UNCHANGED <<path, disk, uvr_stems, demucs_stems, score, stems>>
    /\ UNCHANGED <<chartVars, tempoVars, mainVars, rmVars>>

InitFile ==
    /\ ChartIdle
    /\ TempoIdle
    /\ MainIdle
    /\ RemoveIdle
    /\ path \in Range(AudioFiles(Range(DirEntries)))
    /\ disk = {}
    /\ uvr_stems = None
    /\ demucs_stems = None
    /\ score = 0
    /\ stems = None
    /\ ppc = "import"
    /\ pexc = "none"

NextFile == ImportPipeline \/ CallSeparate

SpecFile == InitFile /\ [][NextFile]_vars

\* process_file as written ends with an exception and never creates a stem
NeverSeparates == disk = {} /\ (ppc = "done" => pexc \in ProcessFileOutcomes)

\* ---- separate_and_score(input_path), and process_file from line 232 on

\* lines 42-45: run_uvr
RunUvr ==
    /\ ppc = "uvr"
    /\ \E o \in ToolOutcomes :
          /\ disk' = disk \cup Written(o, UvrStems)
          /\ uvr_stems' = IF o = "stems" THEN UvrStems ELSE None
    /\ ppc' = "demucs"
    /\ UNCHANGED <<path, demucs_stems, score, stems, pexc>>
    /\ UNCHANGED <<chartVars, tempoVars, mainVars, rmVars>>

\* lines 47-51: run_demucs
RunDemucs ==
    /\ ppc = "demucs"
    /\ \E o \in ToolOutcomes :
          /\ disk' = disk \cup Written(o, DemucsStems(path))
          /\ demucs_stems' = IF o = "stems" THEN DemucsStems(path) ELSE None
    /\ ppc' = "choose"
    /\ UNCHANGED <<path, uvr_stems, score, stems, pexc>>
    /\ UNCHANGED <<chartVars, tempoVars, mainVars, rmVars>>

\* lines 53-68: score is 1 for a similarity of 0.5 or more, 0 below
ChooseStems ==
    /\ ppc = "choose"
    /\ \E sc \in {0, 1} :
          LET s1 == IF uvr_stems # None /\ demucs_stems # None THEN sc ELSE 0
          IN  /\ score' = s1
              /\ IF demucs_stems = None
                 THEN IF uvr_stems = None
                      THEN /\ pexc' = "RuntimeError"
                           /\ ppc' = "done"
                           /\ stems' = stems
                      ELSE /\ stems' = uvr_stems
                           /\ ppc' = "copy"
                           /\ pexc' = pexc
                 ELSE /\ stems' = IF s1 = 1 /\ uvr_stems # None
                                  THEN uvr_stems ELSE demucs_stems
                      /\ ppc' = "copy"
                      /\ pexc' = pexc
    /\ UNCHANGED <<path, disk, uvr_stems, demucs_stems>>
    /\ UNCHANGED <<chartVars, tempoVars, mainVars, rmVars>>

\* lines 70-82: the chosen stems are copied to final/, uvr/ and demucs/ are
\* removed, and (final_vocal, final_inst) is returned
CopyAndCleanUp ==
    /\ ppc = "copy"
    /\ disk' = {f \in disk \cup Range(FinalStems) : f[1] = "final"}
    /\ stems' = FinalStems
    /\ ppc' = "transcribe"
    /\ UNCHANGED <<path, uvr_stems, demucs_stems, score, pexc>>
    /\ UNCHANGED <<chartVars, tempoVars, mainVars, rmVars>>

\* line 232: transcribe(str(vocal), tmpdir); its decoded.wav is written to
\* tmpdir and unlinked again before transcribe ends
Transcribe ==
    /\ ppc = "transcribe"
    /\ \E o \in {"lines", "CalledProcessError", "RuntimeError"} :
          IF o = "lines"
          THEN ppc' = "analyze" /\ pexc' = pexc
          ELSE ppc' = "done" /\ pexc' = o
    /\ UNCHANGED <<path, disk, uvr_stems, demucs_stems, score, stems>>
    /\ UNCHANGED <<chartVars, tempoVars, mainVars, rmVars>>

\* line 233: bpm, key, chord_seq, beat_times = analyze_instrumental(str(inst)).
\* analyze_instrumental returns the pair (est_key, chords) (chords.py line
\* 96), so the unpacking into four names raises ValueError whenever the
\* analysis itself does not raise; lines 236-254, the two calls of
\* overwrite_and_remove among them, are never reached
AnalyzeInstrumental ==
    /\ ppc = "analyze"
    /\ \E o \in {"pair", "LibsndfileError"} :
          pexc' = IF o = "pair" THEN "ValueError" ELSE o
    /\ ppc' = "done"
    /\ UNCHANGED <<path, disk, uvr_stems, demucs_stems, score, stems>>
    /\ UNCHANGED <<chartVars, tempoVars, mainVars, rmVars>>

InitStems ==
    /\ ChartIdle
    /\ TempoIdle
    /\ MainIdle
    /\ RemoveIdle
    /\ path \in Range(AudioFiles(Range(DirEntries)))
    /\ disk = {}
    /\ uvr_stems = None
    /\ demucs_stems = None
    /\ score = 0
    /\ stems = None
    /\ ppc = "uvr"
    /\ pexc = "none"

NextStems ==
    \/ RunUvr
    \/ RunDemucs
    \/ ChooseStems
    \/ CopyAndCleanUp
    \/ Transcribe
    \/ AnalyzeInstrumental

SpecStems == InitStems /\ [][NextStems]_vars

-----------------------------------------------------------------------------
(* C12 *)

-----------------------------------------------------------------------------
(* overwrite_and_remove (ultimate_chord_reader.py)                          *)
(*                                                                          *)
(* The file at path is path_exists and its bytes contents.  stat, open and  *)
(* write may fail with OSError; unlink of the file removes it.              *)

\* b"\x00" * n
Zeros(n) == [i \in 1..n |-> 0]

\* the bytes a file may hold
FileContents == UNION {[1..n -> {0, 100}] : n \in 0..MaxFileSize}

\* faulty variant of Finally: the unlink is in an else clause and a failure
\* goes straight out of the function
FinallySkipped == "done"

\* finally: where control goes when a statement of the try block raises
Finally == "unlink"

\* lines 100-101
CheckExists ==
    /\ opc = "check"
    /\ opc' = IF path_exists THEN "stat" ELSE "done"
    /\ UNCHANGED <<path_exists, contents, size, rexc>>
    /\ UNCHANGED <<chartVars, tempoVars, mainVars, procVars>>

\* line 103: size = path.stat().st_size
Stat ==
    /\ opc = "stat"
    /\ \E ok \in BOOLEAN :
          IF ok
          THEN size' = Len(contents) /\ opc' = "open" /\ rexc' = rexc
          ELSE size' = size /\ opc' = Finally /\ rexc' = "OSError"
    /\ UNCHANGED <<path_exists, contents>>
    /\ UNCHANGED <<chartVars, tempoVars, mainVars, procVars>>

\* line 104: open(path, "wb", buffering=0) truncates the file
OpenTruncate ==
    /\ opc = "open"
    /\ \E ok \in BOOLEAN :
          IF ok
          THEN contents' = <<>> /\ opc' = "write" /\ rexc' = rexc
          ELSE contents' = contents /\ opc' = Finally /\ rexc' = "OSError"
    /\ UNCHANGED <<path_exists, size>>
    /\ UNCHANGED <<chartVars, tempoVars, mainVars, procVars>>

\* line 105: f.write(b"\x00" * size); a failing write leaves n < size zeros
WriteZeros ==
    /\ opc = "write"
    /\ \E n \in 0..size :
          /\ contents' = Zeros(n)
          /\ IF n = size
             THEN opc' = "unlink" /\ rexc' = rexc
             ELSE opc' = Finally /\ rexc' = "OSError"
    /\ UNCHANGED <<path_exists, size>>
    /\ UNCHANGED <<chartVars, tempoVars, mainVars, procVars>>

\* line 107: path.unlink(missing_ok=True); the exception of the try block,
\* if any, goes on to the caller
Unlink ==
    /\ opc = "unlink"
    /\ path_exists' = FALSE
    /\ contents' = <<>>
    /\ opc' = "done"
    /\ UNCHANGED <<size, rexc>>
    /\ UNCHANGED <<chartVars, tempoVars, mainVars, procVars>>

InitRemove ==
    /\ ChartIdle
    /\ TempoIdle
    /\ MainIdle
    /\ ProcIdle
    /\ path_exists \in BOOLEAN
    /\ contents \in (IF path_exists THEN FileContents ELSE {<<>>})
    /\ size = 0
    /\ opc = "check"
    /\ rexc = "none"

NextRemove ==
    \/ CheckExists
    \/ Stat
    \/ OpenTruncate
    \/ WriteZeros
    \/ Unlink

SpecRemove == InitRemove /\ [][NextRemove]_vars

-----------------------------------------------------------------------------
(* C13 *)

\* C13: after overwrite_and_remove(path) finishes the file at path does not
\* exist, also when stat, open or the writing of the zeros failed (the
\* unlink still runs); and when path does not exist beforehand the call
\* returns at once and changes nothing.
C13_OverwriteAndRemove ==
    /\ [](opc = "done" => ~path_exists)
    /\ [][ (opc = "check" /\ ~path_exists) =>
              (opc' = "done" /\ UNCHANGED <<path_exists, contents, size, rexc>>) ]_vars

\* the writing of the zeros failed half way, and the file is gone
C13_Witness ==
    /\ opc = "done"
    /\ size >= 2
    /\ rexc = "OSError"
    /\ ~path_exists

-----------------------------------------------------------------------------
(* C14 *)

\* the end of the last bar
ChartEnd == BEnd(Len(bar_starts))

\* C14 as claimed: after bar construction the bars cover the full event
\* range: every chord onset and every lyric end time is before the end of
\* the last bar, so no chord is left outside all bars.
C14_AsClaimed ==
    pc = "done" =>
        /\ \A k \in DOMAIN chords : chords[k].onset < ChartEnd
        /\ \A k \in DOMAIN lyrics : lyrics[k].e < ChartEnd

\* C14, what the code does: every chord onset and lyric end time is at or
\* before the end of the last bar; the chords taken by the bars are exactly
\* those whose onset is before that end, and a chord starting exactly at the
\* end of the last bar is taken by no bar.
C14_CoveredUpToEnd ==
    pc = "done" =>
        /\ \A k \in DOMAIN chords : chords[k].onset <= ChartEnd
        /\ \A k \in DOMAIN lyrics : lyrics[k].e <= ChartEnd
        /\ chord_idx = Cardinality({k \in DOMAIN chords : chords[k].onset < ChartEnd})

\* the only chord of the song starts exactly where the last bar ends, and no
\* line of the chart shows a label
C14_Witness ==
    /\ pc = "done"
    /\ Len(chords) = 1
    /\ chords[1].onset = ChartEnd
    /\ \A b \in Bars : Labels(chart_lines[b]) = <<>>

-----------------------------------------------------------------------------
(* C15 *)

\* beatsPerBar * 60 / BPM, in ticks
UniformLen == (12000 * BeatsPerBar(time_sig)) \div bpm

\* C15 as claimed: when the beat grid has fewer than 2 points, the bars have
\* the uniform length beatsPerBar * 60 / BPM and start at time 0: bar i
\* (counted from 0) starts at i * beatsPerBar * 60 / BPM.
C15_AsClaimed ==
    (pc = "done" /\ Len(beat_times) < 2) =>
        \A b \in Bars : bar_starts[b] = (b - 1) * UniformLen

\* C15 amended: when the beat grid has fewer than 2 points, the bars have
\* the uniform length beatsPerBar * 60 / BPM; with an empty grid they start
\* at time 0, with a one-beat grid they start at that beat: bar i (counted
\* from 0) starts at origin + i * beatsPerBar * 60 / BPM, and the last bar
\* has that length too.
C15_UniformFallback ==
    (pc = "done" /\ Len(beat_times) < 2) =>
        LET origin == IF beat_times = <<>> THEN 0 ELSE beat_times[1]
        IN  /\ \A b \in Bars : bar_starts[b] = origin + (b - 1) * UniformLen
            /\ ChartEnd = origin + Len(bar_starts) * UniformLen

\* a grid of one beat after time 0, and three bars or more built from it
C15_Witness ==
    /\ pc = "done"
    /\ Len(beat_times) = 1
    /\ beat_times[1] > 0
    /\ Len(bar_starts) >= 3
    /\ bar_starts[3] = beat_times[1] + 2 * UniformLen

-----------------------------------------------------------------------------
(* C16 *)

\* the inter-beat intervals of the detected beats
Ibi == NpDiff(drum_beat_times)

\* twice the distance of interval x from the median, and 30% of the median
\* on the same scale (times 10, to stay in whole numbers)
Deviation10(x) == 10 * AbsDiff(2 * x, Median2(Ibi))
ThirtyPercent10 == 3 * Median2(Ibi)

\* the intervals deviating from the median by at most 30%
WithinThirty == SelectSeq(Ibi, LAMBDA x : Deviation10(x) <= ThirtyPercent10)

\* the intervals deviating from the median by less than 30%
UnderThirty == SelectSeq(Ibi, LAMBDA x : Deviation10(x) < ThirtyPercent10)

\* fewer than max(3, half of all intervals) of them
TooFew(kept) == Len(kept) < 3 \/ 2 * Len(kept) < Len(Ibi)

\* the filter has run on four beats or more
Filtered == tpc \in {"fold", "check", "done"} /\ Len(drum_beat_times) >= 4

\* the function has failed at the filter
FailedInconsistent == outcome = Raise("RuntimeError", "Inconsistent beat intervals")

\* the BPM is taken from the median of the kept intervals
BpmFrom(kept) ==
    /\ ~FailedInconsistent
    /\ raw_bpm = [num |-> 24000, den |-> Median2(kept)]

-----------------------------------------------------------------------------
(* C17 *)

\* C17 as claimed: in every bar at most MAX_CHANGES_PER_BAR of the displayed
\* labels belong to chords whose onset is in that bar, whether or not the bar
\* has a carried-over chord.
C17_AsClaimed ==
    pc = "done" =>
        \A b \in Bars : Len(FreshLabels(b)) <= MAX_CHANGES_PER_BAR

\* C17, what the code does: a bar with a carried-over chord shows at most
\* MAX_CHANGES_PER_BAR labels of its own chords after it; a bar without one
\* shows up to 1 + MAX_CHANGES_PER_BAR labels of its own chords.
C17_BudgetWithCarryOver ==
    pc = "done" =>
        \A b \in Bars :
            Len(FreshLabels(b)) <=
                IF HasSounding(b) THEN MAX_CHANGES_PER_BAR ELSE 1 + MAX_CHANGES_PER_BAR

\* the first bar shows three labels, all of chords that start in it
C17_Witness ==
    /\ pc = "done"
    /\ ~HasSounding(1)
    /\ Len(InBarNames(1)) >= 3
    /\ Len(FreshLabels(1)) = 1 + MAX_CHANGES_PER_BAR

-----------------------------------------------------------------------------
(* C18 *)

\* the places (line, position) where the text of lyric k stands in the chart
Places(k) ==
    UNION { { <<b, i>> : i \in {j \in DOMAIN chart_lines[b] :
                                   chart_lines[b][j] = Words[k]} }
            : b \in Bars }

\* lyric k has a text
HasText(k) == k \in DOMAIN lyrics /\ lyrics[k].txt # <<>>

\* C18: format_chart never drops or duplicates a lyric segment: the text of
\* every input segment stands at exactly one place of the chart and no other
\* lyric text appears; a segment that starts before the first bar (grace
\* included) is on the first line, one that starts at or after the start of
\* the last bar is on the last line, and segments on the same line keep their
\* input order.
C18_LyricConservation ==
    pc = "done" =>
        /\ \A k \in DOMAIN Words :
              Cardinality(Places(k)) = IF HasText(k) THEN 1 ELSE 0
        /\ \A k \in DOMAIN lyrics :
              HasText(k) =>
                  /\ (lyrics[k].s + grace < BStart(1) => OnLine(k, 1))
                  /\ (lyrics[k].s >= BStart(Len(bar_starts)) => OnLine(k, Len(bar_starts)))
        /\ \A k, m \in DOMAIN lyrics :
              (HasText(k) /\ HasText(m) /\ k < m) =>
                  \A p \in Places(k), q \in Places(m) :
                      p[1] = q[1] => p[2] < q[2]

\* two segments share the last of several bars, the second starting at or
\* after its start, and stand on its line in input order
C18_Witness ==
    /\ pc = "done"
    /\ Len(bar_starts) >= 2
    /\ Len(lyrics) = 2
    /\ lyrics[2].s >= BStart(Len(bar_starts))
    /\ chart_lines[Len(bar_starts)] = <<TAB, Words[1], SP, Words[2]>>

-----------------------------------------------------------------------------
(* C19 *)

\* C19: for every strictly increasing (or empty, or one-beat) beat grid,
\* positive BPM, beatsPerBar >= 1 and finite event times, format_chart
\* terminates: the trimming loop, the extension loop, the lyric loop and the
\* bar loop with its chord cursor all come to an end and the chart is
\* returned without an exception.
C19_Terminates == <>(pc = "done" /\ exc = "none")

\* a run on a detected grid in which the extension loop appended at least
\* two synthetic bars and the chord cursor went through the whole chord list
C19_Witness ==
    /\ pc = "done"
    /\ exc = "none"
    /\ Len(beat_times) >= 2
    /\ Len(bar_starts) >= Len(InitialBarStarts(beat_times, BeatsPerBar(time_sig))) + 2
    /\ Last(bar_starts) > Last(beat_times)
    /\ chords # <<>>
    /\ chord_idx = Len(chords)

=============================================================================
